---- MODULE Spec2Model ----
(***************************************************************************)
(* A model of the sync engine of snapraid (src/cmdline/sync.c): the driver *)
(* state_sync, the hash pass state_hash_process and the sync pass          *)
(* state_sync_process, over a small array of data disks and parity files.  *)
(*                                                                         *)
(* A block content is a number of the field 0..GF-1; 0 is the all-zero     *)
(* block.  A parity block is a linear code of the data blocks of its       *)
(* index.  A digest is a number too: 0 is the zero ("no hash") sentinel.   *)
(***************************************************************************)
EXTENDS Integers, Sequences, FiniteSets, TLC

\* ---------------------------------------------------------------- bounds
DiskMax == 2        \* data disk slots (diskmax of handle_map)
BlockMax == 2       \* parity_allocated_size: block indices 0..BlockMax-1
LevMax == 2         \* state->level is drawn from 1..LevMax
MaxVal == 1         \* on-disk file contents are drawn from 1..MaxVal
MaxFeatures == 2    \* blocks in use + flags set + options away from default,
                    \* but for the autosave of one index and for the
                    \* prehash of an array under rehash or of changed
                    \* blocks only, which are free
MaxFaults == 2      \* weight of the results of the environment other than
                    \* plain success: an EIO weighs 1, any other one 2
IoLimitMax == 1     \* io_error_limit is 0 or IoLimitMax
OffBits == 3        \* width in bits of block_off_t (32 in the build)

\* ------------------------------------------------------------- constants
GF == 5             \* the field of the block contents (a prime > DiskMax)
Now == 1            \* time(0) of the run; older timestamps are 0

Disks == 0 .. (DiskMax - 1)
Idx == 0 .. (BlockMax - 1)
LevAll == 0 .. (LevMax - 1)
Vals == 0 .. (GF - 1)

\* block states (elem.h)
EMPTY == "EMPTY"
BLK == "BLK"
CHG == "CHG"
REP == "REP"
DELETED == "DELETED"

block_has_file(st) == st \in {BLK, CHG, REP}
block_has_updated_hash(st) == st \in {BLK, REP}
block_has_invalid_parity(st) == st \in {CHG, REP, DELETED}

\* ---------------------------------------------------------------- hashes
ZeroHash == 0
\* memhash(algo, seed, data): algo 0 is (hash, hashseed), 1 is (prevhash,
\* prevhashseed); distinct (algo, data) give distinct digests, none zero
memhash(algo, d) == 1 + d + algo * GF
hash_is_zero(h) == h = ZeroHash
hash_is_real(h) == h # ZeroHash
\* the content a digest describes
ContentOf(h) == IF h = ZeroHash THEN 0 ELSE (h - 1) % GF

\* ------------------------------------------------------------------ raid
RECURSIVE Pow(_, _)
Pow(b, e) == IF e = 0 THEN 1 ELSE (b * Pow(b, e - 1)) % GF

RECURSIVE SumTo(_, _)
\* sum of f[0..n-1] in the field
SumTo(f, n) == IF n = 0 THEN 0 ELSE (SumTo(f, n - 1) + f[n - 1]) % GF

\* parity of level l of the data blocks v[0..DiskMax-1]
RaidPar(l, v) == SumTo([j \in Disks |-> (Pow(j + 1, l) * v[j]) % GF], DiskMax)

\* raid_gen(nd, np, size, v): fills v[nd..nd+np-1] from v[0..nd-1]
raid_gen(np, v) ==
  [k \in DOMAIN v |->
     IF k >= DiskMax /\ k < DiskMax + np THEN RaidPar(k - DiskMax, v) ELSE v[k]]

\* raid_rec(nr, ir, nd, np, size, v): recovers the data blocks listed in the
\* map ir from the other data blocks and the first nr parities
raid_rec(ir, v) ==
  LET nr == Len(ir)
      F == {ir[k] : k \in 1 .. nr}
      Fits(x) == \A l \in 0 .. (nr - 1) :
                   RaidPar(l, [j \in Disks |-> IF j \in F THEN x[j] ELSE v[j]])
                     = v[DiskMax + l]
      sol == CHOOSE x \in [F -> Vals] : Fits(x)
  IN  [k \in DOMAIN v |-> IF k \in F THEN sol[k] ELSE v[k]]

\* ----------------------------------------------------------------- state
VARIABLES
  \* the array: block states, stored hashes, info entries (in memory)
  bstate, hash, info,
  \* the data disks: present slots and the on-disk content of the file blocks
  disk, data,
  \* the parity files, and per level the indices written since its last sync
  parity, pdirty,
  \* the content file: what the last state_write persisted
  content,
  \* state->level, state->opt.* and the arguments of state_sync
  level, prehash, autosave, force_autosave_at, io_error_limit,
  expect_recoverable, blockstart, blockcount,
  \* state_sync
  pc, run, blockmax, skip_sync, need_write, unrecoverable_error, ret,
  hash_ret, sync_ret,
  \* locals of the two passes
  i, j, l, handle, error, silent_error, io_error, buffer, failed, failed_map,
  error_on_this_block, silent_error_on_this_block, io_error_on_this_block,
  fixed_error_on_this_block, parity_needs_to_be_updated, proceed,
  info_i, rehash, rehandle,
  autosavedone, autosavelimit, autosavemissing, countmax, countpos,
  \* history of the run, read by the properties only
  faults, op, hist

arrayVars == <<bstate, hash, info>>
diskVars == <<disk, data>>
parityVars == <<parity, pdirty>>
optVars == <<level, prehash, autosave, force_autosave_at, io_error_limit,
             expect_recoverable, blockstart, blockcount>>
driverVars == <<run, blockmax, skip_sync, need_write, unrecoverable_error,
                ret, hash_ret, sync_ret>>
countVars == <<error, silent_error, io_error>>
blockVars == <<error_on_this_block, silent_error_on_this_block,
               io_error_on_this_block, fixed_error_on_this_block,
               parity_needs_to_be_updated, proceed, info_i, rehash, rehandle,
               failed, failed_map>>
autoVars == <<autosavedone, autosavelimit, autosavemissing, countmax, countpos>>

vars == <<bstate, hash, info, disk, data, parity, pdirty, content,
          level, prehash, autosave, force_autosave_at, io_error_limit,
          expect_recoverable, blockstart, blockcount,
          pc, run, blockmax, skip_sync, need_write, unrecoverable_error, ret,
          hash_ret, sync_ret,
          i, j, l, handle, error, silent_error, io_error, buffer, failed,
          failed_map, error_on_this_block, silent_error_on_this_block,
          io_error_on_this_block, fixed_error_on_this_block,
          parity_needs_to_be_updated, proceed, info_i, rehash, rehandle,
          autosavedone, autosavelimit, autosavemissing, countmax, countpos,
          faults, op, hist>>

Levels == 0 .. (level - 1)

\* buffer slots: data 0..DiskMax-1, parity DiskMax.., copies, one zero block
BufferMax == 2 * DiskMax + LevMax + 1
Slots == 0 .. (BufferMax - 1)
ZeroBuffer == [k \in Slots |-> 0]
\* the scratch copy of data slot k
CopySlot(k) == DiskMax + level + k

\* the file a block belongs to: one file per block
FileOf(d, x) == x + 1

\* info entries (info_make, info_set_bad, info_get_bad, info_get_rehash)
info_make(t, b, r) == [ts |-> t, bad |-> b, rehash |-> r]
info_set_bad(n) == [n EXCEPT !.bad = TRUE]

\* ------------------------------------------------------------------ init
\* block_off_t is an unsigned integer of OffBits bits
OffMod == 2 ^ OffBits

Cells == Disks \X Idx
Kinds == {"B", "Bx", "C0", "Ch", "Cx", "R", "Rx", "D"}
Flags == {<<"bad", x>> : x \in Idx} \cup {<<"rehash", x>> : x \in Idx}
           \cup {<<"absent", d>> : d \in Disks}
           \cup {<<"prehash", 0>>, <<"autosave", 1>>,
                 <<"force", 0>>, <<"iolimit", 0>>, <<"expect", 0>>}
           \cup {<<"start", x>> : x \in 1 .. BlockMax + 1}
           \cup {<<"count", x>> : x \in (1 .. BlockMax) \cup {OffMod - 1}}

RECURSIVE UpTo(_, _)
\* the subsets of S with at most k elements
UpTo(S, k) ==
  IF k = 0 THEN {{}}
  ELSE LET P == UpTo(S, k - 1) IN P \cup {p \cup {x} : p \in P, x \in S}

\* another content than d, never the zero block
Other(d) == (d % (GF - 1)) + 1

\* a block of the given kind with on-disk content d, hashed with algo a:
\* old is the content the parity encodes for the block
Cell(kind, d, a) ==
  CASE kind = "B"  -> [st |-> BLK, data |-> d, hash |-> memhash(a, d), old |-> d]
    [] kind = "Bx" -> [st |-> BLK, data |-> d, hash |-> memhash(a, Other(d)),
                       old |-> Other(d)]
    [] kind = "C0" -> [st |-> CHG, data |-> d, hash |-> ZeroHash, old |-> 0]
    [] kind = "Ch" -> [st |-> CHG, data |-> d, hash |-> memhash(a, d), old |-> d]
    [] kind = "Cx" -> [st |-> CHG, data |-> d, hash |-> memhash(a, Other(d)),
                       old |-> Other(d)]
    [] kind = "R"  -> [st |-> REP, data |-> d, hash |-> memhash(a, d), old |-> 0]
    [] kind = "Rx" -> [st |-> REP, data |-> d, hash |-> memhash(a, Other(d)),
                       old |-> 0]
    [] kind = "D"  -> [st |-> DELETED, data |-> 0, hash |-> memhash(a, d),
                       old |-> d]
    [] OTHER       -> [st |-> EMPTY, data |-> 0, hash |-> ZeroHash, old |-> 0]

NoOp == <<"none", 0>>
NoHist == [mut |-> {}, rd |-> {}, pw |-> {}, pwok |-> {}, silent |-> {},
           io |-> {}, ferr |-> {}, committed |-> {}, fixed |-> {}, gen |-> {},
           synced |-> {}, nwrite |-> 0, unsynced_write |-> FALSE,
           dirty_write |-> FALSE,
           aborted |-> FALSE, bailed |-> FALSE, corrupt |-> {},
           pw_since |-> {}, eio |-> {}, marked |-> {}, done |-> {},
           prev_errors |-> 0,
           pr |-> {}, hrd |-> {}, heio |-> FALSE, nferr |-> 0, asave |-> {},
           adone |-> 0, hash_ran |-> FALSE, herr |-> 0, sync_ran |-> FALSE, close_failed |-> FALSE,
           hferr |-> 0, habort |-> FALSE, hlate |-> {}, afail |-> {},
           esync |-> {},
           data0 |-> <<>>,
           info0 |-> <<>>, parity0 |-> <<>>, bstate0 |-> <<>>, hash0 |-> <<>>]

Init ==
  \E live \in UpTo(Cells, MaxFeatures) :
  \E flags \in UpTo(Flags, MaxFeatures - Cardinality(live)) :
  \E kind \in [live -> Kinds] :
  \E dv \in [live -> 1 .. MaxVal] :
  \E lv \in 1 .. LevMax :
  \E av \in BOOLEAN :
  \E ph \in BOOLEAN :
    LET rh(x) == <<"rehash", x>> \in flags
        cell(d, x) == IF <<d, x>> \in live
                      THEN Cell(kind[<<d, x>>], dv[<<d, x>>], IF rh(x) THEN 1 ELSE 0)
                      ELSE Cell("E", 0, 0)
        inf == [x \in Idx |-> info_make(0, <<"bad", x>> \in flags, rh(x))]
        st == [d \in Disks |-> [x \in Idx |-> cell(d, x).st]]
        hs == [d \in Disks |-> [x \in Idx |-> cell(d, x).hash]]
    IN
    /\ \A c \in live : <<"absent", c[1]>> \notin flags
    /\ ~(<<"autosave", 1>> \in flags /\ av)
    /\ ph => /\ <<"prehash", 0>> \notin flags
             /\ \/ \E x \in Idx : rh(x)
                \/ /\ Cardinality(live) = MaxFeatures
                   /\ \A c \in live : kind[c] \in {"C0", "Ch", "Cx"}
    /\ Cardinality({f \in flags : f[1] = "start"}) <= 1
    /\ Cardinality({f \in flags : f[1] = "count"}) <= 1
    /\ bstate = st
    /\ hash = hs
    /\ info = inf
    /\ disk = {d \in Disks : <<"absent", d>> \notin flags}
    /\ data = [d \in Disks |-> [x \in Idx |-> cell(d, x).data]]
    /\ parity = [k \in LevAll |-> [x \in Idx |->
                   IF k < lv THEN RaidPar(k, [d \in Disks |-> cell(d, x).old])
                   ELSE 0]]
    /\ pdirty = [k \in LevAll |-> {}]
    /\ content = [bstate |-> st, hash |-> hs, info |-> inf]
    /\ level = lv
    /\ prehash = (ph \/ <<"prehash", 0>> \in flags)
    /\ autosave = IF <<"autosave", 1>> \in flags THEN 1
                  ELSE IF av THEN DiskMax ELSE 0
    /\ force_autosave_at = IF <<"force", 0>> \in flags THEN BlockMax - 1 ELSE 0
    /\ io_error_limit = IF <<"iolimit", 0>> \in flags THEN 0 ELSE IoLimitMax
    /\ expect_recoverable = (<<"expect", 0>> \in flags)
    /\ blockstart = IF \E f \in flags : f[1] = "start"
                    THEN (CHOOSE f \in flags : f[1] = "start")[2] ELSE 0
    /\ blockcount = IF \E f \in flags : f[1] = "count"
                    THEN (CHOOSE f \in flags : f[1] = "count")[2] ELSE 0
    /\ pc = "start"
    /\ run = 1
    /\ blockmax = 0
    /\ skip_sync = FALSE
    /\ need_write = FALSE
    /\ unrecoverable_error = 0
    /\ ret = 0
    /\ hash_ret = 0
    /\ sync_ret = 0
    /\ i = 0
    /\ j = 0
    /\ l = 0
    /\ handle = [d \in Disks |-> 0]
    /\ error = 0
    /\ silent_error = 0
    /\ io_error = 0
    /\ buffer = ZeroBuffer
    /\ failed = <<>>
    /\ failed_map = <<>>
    /\ error_on_this_block = FALSE
    /\ silent_error_on_this_block = FALSE
    /\ io_error_on_this_block = FALSE
    /\ fixed_error_on_this_block = FALSE
    /\ parity_needs_to_be_updated = FALSE
    /\ proceed = FALSE
    /\ info_i = info_make(0, FALSE, FALSE)
    /\ rehash = FALSE
    /\ rehandle = [d \in Disks |-> [block |-> FALSE, hash |-> ZeroHash]]
    /\ autosavedone = 0
    /\ autosavelimit = 0
    /\ autosavemissing = 0
    /\ countmax = 0
    /\ countpos = 0
    /\ faults = 0
    /\ op = NoOp
    /\ hist = [NoHist EXCEPT !.info0 = inf, !.bstate0 = st, !.hash0 = hs,
                             !.data0 = [d \in Disks |-> [x \in Idx |-> cell(d, x).data]],
                             !.parity0 = [k \in LevAll |-> [x \in Idx |->
                                IF k < lv
                                THEN RaidPar(k, [d \in Disks |-> cell(d, x).old])
                                ELSE 0]]]

\* ------------------------------------------------------------ environment
\* results other than plain success may be drawn while the budget lasts
Weight(out) ==
  IF out = "ok" THEN 0
  ELSE IF out \in {"close_eio", "open_eio", "read_eio", "write_eio",
                   "write_eio_torn"}
  THEN 1 ELSE 2
Faulty(names) == {n \in names : faults + Weight(n) <= MaxFaults}
Spend(out) == faults' = faults + Weight(out)

\* state_write: the content file takes the array as it is in memory
state_write(st, hs, inf) ==
  /\ content' = [bstate |-> st, hash |-> hs, info |-> inf]
  /\ need_write' = FALSE

\* history of a state_write issued now
Written(h) ==
  [h EXCEPT !.nwrite = @ + 1,
            !.pw_since = {},
            !.unsynced_write = @ \/ (h.synced # Levels),
            !.dirty_write = @ \/ (\E k \in Levels : pdirty[k] # {})]

\* ------------------------------------------------------------ state_sync
\* lines 1211-1296: the range, then the hash pass when prehash is set
Start ==
  /\ pc = "start"
  /\ blockmax' = LET end == (blockstart + blockcount) % OffMod
                 IN  IF blockcount # 0 /\ end < BlockMax THEN end ELSE BlockMax
  /\ unrecoverable_error' = 0
  /\ skip_sync' = FALSE
  /\ pc' = IF blockstart > BlockMax THEN "exit"
           ELSE IF prehash THEN "hash_begin" ELSE "sync_enter"
  /\ op' = NoOp
  /\ UNCHANGED <<arrayVars, diskVars, parityVars, content, optVars, run,
                 need_write, ret, hash_ret, sync_ret, i, j, l, handle,
                 countVars, buffer, blockVars, autoVars, faults, hist>>

\* -------------------------------------------------------- state_hash_process
\* a block the hash pass has to hash
HashWanted(d, x) ==
  block_has_file(bstate[d][x]) /\ ~block_has_updated_hash(bstate[d][x])

\* lines 44-87
HashBegin ==
  /\ pc = "hash_begin"
  /\ error' = 0
  /\ io_error' = 0
  /\ LET n == Cardinality({c \in Cells : /\ c[1] \in disk
                                        /\ c[2] >= blockstart /\ c[2] < blockmax
                                        /\ HashWanted(c[1], c[2])})
     IN /\ countmax' = n
        /\ pc' = IF n = 0 THEN "hash_end" ELSE "hash_loop"
  /\ countpos' = 0
  /\ j' = 0
  /\ i' = blockstart
  /\ op' = NoOp
  /\ hist' = [hist EXCEPT !.hash_ran = TRUE]
  /\ UNCHANGED <<arrayVars, diskVars, parityVars, content, optVars, driverVars,
                 l, handle, silent_error, buffer, blockVars, autosavedone,
                 autosavelimit, autosavemissing, faults>>

\* an EIO of the hash pass is counted and the block skipped
hash_error_is_fatal_but_eio(out) == out \in {"close_err", "open_err", "read_err"}

\* every error of the hash pass is fatal
hash_error_is_fatal_always(out) == out \notin {"ok", "abort"}

\* lines 134-250: the errors after which the hash pass goes to bail; a file
\* that is missing, not accessible or changed is skipped with `continue`
hash_error_is_fatal(out) ==
  out \in {"close_eio", "close_err", "open_eio", "open_err", "read_eio",
           "read_err"}

\* the hash pass always uses the current hash and seed
hash_is_previous_never(x) == FALSE

\* lines 116-119 and 252-256: the previous hash and seed are used when the
\* info entry of the index asks for a rehash
hash_is_previous(x) == info[x].rehash

\* lines 96-278: one block of one disk
HashBlock ==
  /\ pc = "hash_loop"
  /\ j < DiskMax /\ j \in disk /\ i < blockmax
  /\ UNCHANGED <<info, diskVars, parityVars, content, optVars, run, blockmax,
                 unrecoverable_error, ret, hash_ret, sync_ret, j, l,
                 silent_error, buffer, blockVars, autosavedone, autosavelimit,
                 autosavemissing, countmax>>
  /\ IF ~HashWanted(j, i)
     THEN /\ i' = i + 1
          /\ op' = NoOp
          /\ UNCHANGED <<bstate, hash, pc, skip_sync, need_write, handle,
                         error, io_error, countpos, faults, hist>>
     ELSE \E out \in {"ok"} \cup Faulty(
                 (IF handle[j] # 0 /\ handle[j] # FileOf(j, i)
                  THEN {"close_eio", "close_err"} ELSE {})
                 \cup {"open_eio", "open_enoent", "open_eacces", "open_err",
                       "stat", "read_eio", "read_err", "abort"}) :
          /\ Spend(out)
          /\ op' = <<"hash_" \o out, i>>
          /\ handle' = [handle EXCEPT ![j] =
                          IF out \in {"stat", "read_eio", "read_err", "ok", "abort"}
                          THEN FileOf(j, i) ELSE 0]
          /\ io_error' = IF out \in {"close_eio", "open_eio", "read_eio"}
                         THEN io_error + 1 ELSE io_error
          /\ error' = IF out \in {"close_err", "open_enoent", "open_eacces",
                                  "open_err", "stat", "read_err"}
                      THEN error + 1 ELSE error
          /\ pc' = IF hash_error_is_fatal(out) THEN "hash_bail" ELSE "hash_loop"
          /\ IF out \in {"ok", "abort"}
             THEN /\ hash' = [hash EXCEPT ![j][i] =
                                memhash(IF hash_is_previous(i) THEN 1 ELSE 0,
                                        data[j][i])]
                  /\ bstate' = [bstate EXCEPT ![j][i] = REP]
                  /\ need_write' = TRUE
                  /\ countpos' = countpos + 1
             ELSE UNCHANGED <<hash, bstate, need_write, countpos>>
          /\ skip_sync' = (skip_sync \/ out = "abort")
          /\ i' = IF out = "abort" THEN blockmax ELSE i + 1
          /\ hist' = [hist EXCEPT
                        !.hrd = IF out \in {"ok", "abort"}
                                THEN @ \cup {<<j, i>>} ELSE @,
                        !.heio = @ \/ out \in {"close_eio", "open_eio", "read_eio"},
                        !.hferr = IF out \in {"open_enoent", "open_eacces", "stat"}
                                  THEN @ + 1 ELSE @,
                        !.habort = @ \/ out = "abort",
                        !.hlate = IF hist.habort THEN @ \cup {<<j, i>>} ELSE @]

\* lines 280-307: the end of a disk, closing its last file
HashDiskEnd ==
  /\ pc = "hash_loop"
  /\ j < DiskMax /\ (j \notin disk \/ i >= blockmax)
  /\ \E out \in {"ok"} \cup Faulty(IF j \in disk /\ handle[j] # 0
                                   THEN {"close_eio", "close_err"} ELSE {}) :
       /\ Spend(out)
       /\ op' = <<"hash_close_" \o out, j>>
       /\ io_error' = IF out = "close_eio" THEN io_error + 1 ELSE io_error
       /\ error' = IF out = "close_err" THEN error + 1 ELSE error
       /\ pc' = IF out = "ok" THEN "hash_loop" ELSE "hash_bail"
       /\ hist' = [hist EXCEPT !.heio = @ \/ out = "close_eio"]
  /\ handle' = [handle EXCEPT ![j] = 0]
  /\ j' = j + 1
  /\ i' = blockstart
  /\ UNCHANGED <<arrayVars, diskVars, parityVars, content, optVars, driverVars,
                 l, silent_error, buffer, blockVars, autoVars>>

\* lines 309-331 and 350-356: the end label and the return
HashEnd ==
  /\ pc = "hash_end" \/ (pc = "hash_loop" /\ j = DiskMax)
  /\ hash_ret' = IF error + io_error # 0 THEN -1 ELSE 0
  /\ pc' = "hash_ret"
  /\ op' = <<"hash_end", io_error>>
  /\ hist' = [hist EXCEPT !.herr = error + io_error]
  /\ UNCHANGED <<arrayVars, diskVars, parityVars, content, optVars, run,
                 blockmax, skip_sync, need_write, unrecoverable_error, ret,
                 sync_ret, i, j, l, handle, countVars, buffer, blockVars,
                 autoVars, faults>>

\* the bail label leaves skip_sync as it is
hash_bail_skip_sync_kept == skip_sync

\* line 335: the bail label asks to skip the sync pass
hash_bail_skip_sync == TRUE

\* lines 333-356: the bail label and the return
HashBail ==
  /\ pc = "hash_bail"
  /\ skip_sync' = hash_bail_skip_sync
  /\ \E out \in {"ok"} \cup Faulty(IF \E d \in Disks : handle[d] # 0
                                   THEN {"close_err"} ELSE {}) :
       /\ Spend(out)
       /\ error' = IF out = "ok" THEN error ELSE error + 1
       /\ hash_ret' = IF error' + io_error # 0 THEN -1 ELSE 0
  /\ handle' = [d \in Disks |-> 0]
  /\ pc' = "hash_ret"
  /\ op' = NoOp
  /\ hist' = [hist EXCEPT !.bailed = TRUE, !.herr = error' + io_error]
  /\ UNCHANGED <<arrayVars, diskVars, parityVars, content, optVars, run,
                 blockmax, need_write, unrecoverable_error, ret, sync_ret,
                 i, j, l, silent_error, io_error, buffer, blockVars, autoVars>>

\* the array is not written when the hash pass asked to skip the sync pass
hash_state_is_written_unless_skipped == need_write /\ ~skip_sync

\* lines 1309-1310: the array is written when the hash pass made it dirty
hash_state_is_written == need_write

\* state_sync lines 1301-1311: after the hash pass
AfterHash ==
  /\ pc = "hash_ret"
  /\ unrecoverable_error' = IF hash_ret = -1 THEN unrecoverable_error + 1
                            ELSE unrecoverable_error
  /\ IF hash_state_is_written
     THEN /\ state_write(bstate, hash, info)
          /\ hist' = Written(hist)
          /\ op' = <<"state_write", 0>>
     ELSE /\ UNCHANGED <<content, need_write, hist>>
          /\ op' = NoOp
  /\ pc' = "sync_enter"
  /\ UNCHANGED <<arrayVars, diskVars, parityVars, optVars, run, blockmax,
                 skip_sync, ret, hash_ret, sync_ret, i, j, l, handle, countVars,
                 buffer, blockVars, autoVars, faults>>

\* the sync pass is run for an empty range too
range_has_blocks_or_none == blockstart <= blockmax

\* line 1317: the range is not the degenerated one
range_has_blocks == blockstart < blockmax

\* state_sync lines 1313-1328
SyncEnter ==
  /\ pc = "sync_enter"
  /\ pc' = IF ~skip_sync /\ range_has_blocks THEN "sync_begin" ELSE "close"
  /\ op' = NoOp
  /\ UNCHANGED <<arrayVars, diskVars, parityVars, content, optVars, driverVars,
                 i, j, l, handle, countVars, buffer, blockVars, autoVars,
                 faults, hist>>

\* -------------------------------------------------------- state_sync_process
\* every index is processed
block_is_enabled_always(x) == TRUE

\* an index with a file is processed, even with no invalid parity
block_is_enabled_any_file(x) ==
  \E d \in disk : block_has_file(bstate[d][x])

\* an index with invalid parity is processed, even with no file
block_is_enabled_any_invalid(x) ==
  \E d \in disk : block_has_invalid_parity(bstate[d][x])

\* lines 383-413
block_is_enabled(x) ==
  LET one_valid == \E d \in disk : block_has_file(bstate[d][x])
      one_invalid == \E d \in disk : block_has_invalid_parity(bstate[d][x])
  IN  one_invalid /\ one_valid

\* the indices at which this step changed a block state or the info entry
MutOf ==
  {x \in Idx : info'[x] # info[x] \/ \E d \in Disks : bstate'[d][x] # bstate[d][x]}

\* lines 443-493
SyncBegin ==
  /\ pc = "sync_begin"
  /\ error' = 0
  /\ silent_error' = 0
  /\ io_error' = 0
  /\ LET n == Cardinality({x \in Idx : x >= blockstart /\ x < blockmax
                                        /\ block_is_enabled(x)})
     IN /\ countmax' = n
        /\ autosavemissing' = n
        /\ pc' = IF n = 0 THEN "sync_end" ELSE "sync_loop"
        /\ i' = IF n = 0 THEN blockmax ELSE blockstart
  /\ autosavelimit' = autosave \div DiskMax
  /\ autosavedone' = 0
  /\ countpos' = 0
  /\ l' = 0
  /\ op' = NoOp
  /\ hist' = [hist EXCEPT !.sync_ran = TRUE]
  /\ UNCHANGED <<arrayVars, diskVars, parityVars, content, optVars, driverVars,
                 j, handle, buffer, blockVars, faults>>

\* lines 495-538: the head of the loop over the indices
SyncIndex ==
  /\ pc = "sync_loop"
  /\ i < blockmax
  /\ op' = NoOp
  /\ UNCHANGED <<arrayVars, diskVars, parityVars, content, optVars, driverVars,
                 l, handle, countVars, buffer, autosavelimit, countmax,
                 countpos, faults, hist>>
  /\ IF ~block_is_enabled(i)
     THEN /\ i' = i + 1
          /\ UNCHANGED <<pc, j, blockVars, autosavedone, autosavemissing>>
     ELSE /\ autosavedone' = autosavedone + 1
          /\ autosavemissing' = autosavemissing - 1
          /\ error_on_this_block' = FALSE
          /\ silent_error_on_this_block' = FALSE
          /\ io_error_on_this_block' = FALSE
          /\ fixed_error_on_this_block' = FALSE
          /\ failed' = <<>>
          /\ info_i' = info[i]
          /\ rehash' = info[i].rehash
          /\ parity_needs_to_be_updated' = info[i].bad
          /\ j' = 0
          /\ pc' = "disk"
          /\ UNCHANGED <<i, proceed, rehandle, failed_map>>

\* the end of the range
SyncLoopEnd ==
  /\ pc = "sync_loop"
  /\ i >= blockmax
  /\ pc' = "sync_end"
  /\ l' = 0
  /\ op' = NoOp
  /\ UNCHANGED <<arrayVars, diskVars, parityVars, content, optVars, driverVars,
                 i, j, handle, countVars, buffer, blockVars, autoVars, faults,
                 hist>>

\* the CHG block is marked as hashed when its hash is stored
block_state_hashed_rep(st) == REP

\* lines 813-815: the hash of a CHG block is stored, the block is not marked
\* as hashed
block_state_hashed(st) == st

\* no block forces the parity update before the read
parity_update_forced_never(st) == FALSE

\* every block with invalid parity forces the parity update
parity_update_forced_always(st) == TRUE

\* lines 583-584: a block with invalid parity forces the parity update, but
\* for the CHG ones, decided after the read
parity_update_forced(st) == st # CHG

\* an EIO is tolerated when the count has reached the limit too
Tolerated_at_limit == io_error <= io_error_limit

\* an EIO is tolerated while fewer than io_error_limit were counted
Tolerated == io_error < io_error_limit

\* every hash mismatch is recorded as a silent error
mismatch_is_silent_always(st) == TRUE

\* lines 754-790: a hash mismatch is a silent error when the block has a
\* valid parity (BLK); with an invalid parity (REP) it is a changed file
mismatch_is_silent(st) == ~block_has_invalid_parity(st)

\* lines 541-820: the block of disk j at index i
DiskStep ==
  /\ pc = "disk"
  /\ j' = j + 1
  /\ UNCHANGED <<info, diskVars, parityVars, content, optVars,
                 driverVars, i, l, fixed_error_on_this_block, proceed, info_i,
                 rehash, failed_map, autoVars>>
  /\ LET st == bstate[j][i]
         inv == j \in disk /\ block_has_invalid_parity(st)
         f1 == IF inv THEN Append(failed, [index |-> j, size |-> 1]) ELSE failed
         pn1 == parity_needs_to_be_updated \/ (inv /\ parity_update_forced(st))
         next == IF j + 1 = DiskMax THEN "recover" ELSE "disk"
         rh0 == [rehandle EXCEPT ![j] = [block |-> FALSE, hash |-> ZeroHash]]
     IN
     IF j \notin disk \/ ~block_has_file(st)
     THEN /\ buffer' = [buffer EXCEPT ![j] = 0]
          /\ failed' = f1
          /\ parity_needs_to_be_updated' = pn1
          /\ rehandle' = rh0
          /\ pc' = next
          /\ op' = <<"disk", i>>
          /\ UNCHANGED <<bstate, hash, handle, countVars, error_on_this_block,
                         silent_error_on_this_block, io_error_on_this_block,
                         faults, hist>>
     ELSE \E out \in {"ok"} \cup Faulty(
                 (IF handle[j] # 0 /\ handle[j] # FileOf(j, i)
                  THEN {"close_eio", "close_err"} ELSE {})
                 \cup {"open_eio", "open_enoent", "open_eacces", "open_err",
                       "stat", "read_eio", "read_err"}) :
          LET h == memhash(IF rehash THEN 1 ELSE 0, data[j][i])
              differs == h # hash[j][i]
              rep_changed == out = "ok" /\ block_has_updated_hash(st) /\ differs
                               /\ block_has_invalid_parity(st)
              silent == out = "ok" /\ block_has_updated_hash(st) /\ differs
                          /\ mismatch_is_silent(st)
              chg == out = "ok" /\ ~block_has_updated_hash(st)
              bails == out \in {"close_eio", "close_err", "open_eio", "open_err",
                                "read_err"} \/ (out = "read_eio" /\ ~Tolerated)
              file_error == out \in {"open_enoent", "open_eacces", "stat"}
                              \/ rep_changed
          IN
          /\ Spend(out)
          /\ op' = IF out \in {"ok", "read_eio", "read_err"}
                   THEN <<"read", i>> ELSE <<"disk", i>>
          /\ handle' = [handle EXCEPT ![j] =
                          IF out \in {"stat", "read_eio", "read_err", "ok"}
                          THEN FileOf(j, i) ELSE 0]
          /\ buffer' = IF out = "ok" THEN [buffer EXCEPT ![j] = data[j][i]]
                       ELSE buffer
          /\ rehandle' = IF out = "ok" /\ rehash
                         THEN [rehandle EXCEPT ![j] =
                                 [block |-> TRUE, hash |-> memhash(0, data[j][i])]]
                         ELSE rh0
          /\ io_error' = IF out \in {"close_eio", "open_eio", "read_eio"}
                         THEN io_error + 1 ELSE io_error
          /\ error' = IF out \in {"close_err", "open_err", "read_err"} \/ file_error
                      THEN error + 1 ELSE error
          /\ silent_error' = IF silent THEN silent_error + 1 ELSE silent_error
          /\ error_on_this_block' = (error_on_this_block \/ file_error)
          /\ io_error_on_this_block' =
               (io_error_on_this_block \/ (out = "read_eio" /\ Tolerated))
          /\ silent_error_on_this_block' = (silent_error_on_this_block \/ silent)
          /\ failed' = IF silent THEN Append(f1, [index |-> j, size |-> 1]) ELSE f1
          /\ parity_needs_to_be_updated' =
               (pn1 \/ (chg /\ (~hash_is_real(hash[j][i]) \/ differs)))
          /\ hash' = IF chg THEN [hash EXCEPT ![j][i] = h] ELSE hash
          /\ bstate' = IF chg THEN [bstate EXCEPT ![j][i] = block_state_hashed(st)]
                       ELSE bstate
          /\ pc' = IF bails THEN "sync_bail" ELSE next
          /\ hist' = [hist EXCEPT
                        !.mut = @ \cup MutOf,
                        !.rd = IF out = "ok" THEN @ \cup {i} ELSE @,
                        !.silent = IF silent THEN @ \cup {i} ELSE @,
                        !.ferr = IF file_error THEN @ \cup {i} ELSE @,
                        !.nferr = IF file_error THEN @ + 1 ELSE @,
                        !.io = IF out = "read_eio" /\ Tolerated THEN @ \cup {i} ELSE @,
                        !.eio = IF out = "read_eio" THEN @ \cup {i} ELSE @,
                        !.bailed = @ \/ bails]

\* no copy is taken of the content just read
saved_content_none(d, buf) == buf[CopySlot(d)]

\* line 842: the content just read is saved before raid_rec overwrites it
saved_content(d, buf) == buf[d]

\* lines 829-858: the blocks to recover.  Each failed block is copied to its
\* scratch slot; a CHG block with a zero hash is reset to zeros, the others
\* go to the map while it has room
RECURSIVE RecoverSetup(_, _, _, _)
RecoverSetup(k, buf, map, some) ==
  IF k > Len(failed) THEN [buf |-> buf, map |-> map, some |-> some, broke |-> FALSE]
  ELSE LET d == failed[k].index
           st == bstate[d][i]
           some1 == some \/ st = BLK
           b1 == [buf EXCEPT ![CopySlot(d)] = saved_content(d, buf)]
       IN  IF st = CHG /\ hash_is_zero(hash[d][i])
           THEN RecoverSetup(k + 1, [b1 EXCEPT ![d] = 0], map, some1)
           ELSE IF Len(map) >= level
                THEN [buf |-> b1, map |-> map, some |-> some1, broke |-> TRUE]
                ELSE RecoverSetup(k + 1, b1, Append(map, d), some1)

\* the recovery is tried at an index with a file error too
recovery_is_tried_despite_file_error ==
  /\ ~io_error_on_this_block
  /\ silent_error_on_this_block

\* line 825: only silent errors are fixed on the fly
recovery_is_tried ==
  /\ ~error_on_this_block
  /\ ~io_error_on_this_block
  /\ silent_error_on_this_block

\* lines 822-861
Recover ==
  /\ pc = "recover"
  /\ op' = IF recovery_is_tried THEN <<"recover", i>> ELSE NoOp
  /\ l' = 0
  /\ UNCHANGED <<arrayVars, diskVars, parityVars, content, optVars, driverVars,
                 i, j, handle, countVars, error_on_this_block,
                 silent_error_on_this_block, io_error_on_this_block,
                 fixed_error_on_this_block, parity_needs_to_be_updated, proceed,
                 info_i, rehash, rehandle, failed, autoVars, faults, hist>>
  /\ IF recovery_is_tried
     THEN LET r == RecoverSetup(1, buffer, <<>>, FALSE)
          IN /\ buffer' = r.buf
             /\ failed_map' = r.map
             /\ pc' = IF r.some /\ ~r.broke THEN "pread" ELSE "gen"
     ELSE /\ pc' = "gen"
          /\ UNCHANGED <<buffer, failed_map>>

\* lines 868-899: parity_read of level l
ParityRead ==
  /\ pc = "pread"
  /\ \E out \in {"ok"} \cup Faulty({"read_eio", "read_err"}) :
       LET bails == out = "read_err" \/ (out = "read_eio" /\ ~Tolerated)
       IN
       /\ Spend(out)
       /\ buffer' = IF out = "ok"
                    THEN [buffer EXCEPT ![DiskMax + l] = parity[l][i]] ELSE buffer
       /\ io_error' = IF out = "read_eio" THEN io_error + 1 ELSE io_error
       /\ error' = IF out = "read_err" THEN error + 1 ELSE error
       /\ io_error_on_this_block' =
            (io_error_on_this_block \/ (out = "read_eio" /\ Tolerated))
       /\ pc' = IF bails THEN "sync_bail"
                ELSE IF l + 1 = level THEN "rec" ELSE "pread"
       /\ hist' = [hist EXCEPT
                     !.pr = @ \cup {i},
                     !.io = IF out = "read_eio" /\ Tolerated THEN @ \cup {i} ELSE @,
                     !.eio = IF out = "read_eio" THEN @ \cup {i} ELSE @,
                     !.bailed = @ \/ bails]
  /\ l' = l + 1
  /\ op' = <<"pread", i>>
  /\ UNCHANGED <<arrayVars, diskVars, parityVars, content, optVars, driverVars,
                 i, j, handle, silent_error, error_on_this_block,
                 silent_error_on_this_block, fixed_error_on_this_block,
                 parity_needs_to_be_updated, proceed, info_i, rehash, rehandle,
                 failed, failed_map, autoVars>>

\* the recovered old state is kept
restored_content_none(d, buf) == buf[d]

\* line 939: the content of a failed block that is not BLK, after raid_rec
restored_content(d, buf) == buf[CopySlot(d)]

\* lines 909-941: the recovered BLK blocks are checked against their hashes,
\* the other failed blocks get back the content just read
RECURSIVE RecoverCheck(_, _)
RecoverCheck(k, buf) ==
  IF k > Len(failed) THEN [buf |-> buf, ok |-> TRUE]
  ELSE LET d == failed[k].index
       IN  IF bstate[d][i] = BLK
           THEN IF memhash(IF rehash THEN 1 ELSE 0, buf[d]) # hash[d][i]
                THEN [buf |-> buf, ok |-> FALSE]
                ELSE RecoverCheck(k + 1, buf)
           ELSE RecoverCheck(k + 1, [buf EXCEPT ![d] = restored_content(d, buf)])

\* the recovered BLK blocks are written back to their files
data_after_fix_written(buf) ==
  [d \in Disks |->
     [x \in Idx |->
        IF x = i /\ d \in disk /\ bstate[d][x] = BLK
             /\ \E k \in 1 .. Len(failed_map) : failed_map[k] = d
        THEN buf[d] ELSE data[d][x]]]

\* lines 822-824 and 901-946: the fix is made in the buffers and is not
\* written to the disks
data_after_fix(buf) == data

\* lines 901-946
RaidRec ==
  /\ pc = "rec"
  /\ IF ~io_error_on_this_block
     THEN LET r == RecoverCheck(1, raid_rec(failed_map, buffer))
          IN /\ buffer' = r.buf
             /\ data' = data_after_fix(r.buf)
             /\ fixed_error_on_this_block' = r.ok
             /\ hist' = [hist EXCEPT !.fixed = IF r.ok THEN @ \cup {i} ELSE @]
             /\ op' = <<"raid_rec", i>>
     ELSE /\ UNCHANGED <<buffer, data, fixed_error_on_this_block, hist>>
          /\ op' = NoOp
  /\ pc' = "gen"
  /\ UNCHANGED <<arrayVars, disk, parityVars, content, optVars, driverVars,
                 i, j, l, handle, countVars, error_on_this_block,
                 silent_error_on_this_block, io_error_on_this_block,
                 parity_needs_to_be_updated, proceed, info_i, rehash, rehandle,
                 failed, failed_map, autoVars, faults>>

\* a file error does not stop the parity update
data_is_correct_despite_error ==
  /\ ~io_error_on_this_block
  /\ (~silent_error_on_this_block \/ fixed_error_on_this_block)

\* a silent error left unfixed does not stop the parity update
data_is_correct_despite_silent ==
  /\ ~error_on_this_block
  /\ ~io_error_on_this_block

\* lines 951-953: the data of the index is read and correct
data_is_correct ==
  /\ ~error_on_this_block
  /\ ~io_error_on_this_block
  /\ (~silent_error_on_this_block \/ fixed_error_on_this_block)

\* the parity is computed and written at every index
parity_is_computed_always == TRUE

\* line 955: the parity is computed and written only if really needed
parity_is_computed == parity_needs_to_be_updated

\* lines 950-960: raid_gen when the parity needs to be updated
Gen ==
  /\ pc = "gen"
  /\ proceed' = data_is_correct
  /\ IF data_is_correct /\ parity_is_computed
     THEN /\ buffer' = raid_gen(level, buffer)
          /\ pc' = "pwrite"
          /\ op' = <<"raid_gen", i>>
          /\ hist' = [hist EXCEPT !.gen = @ \cup {<<i, [d \in Disks |-> buffer[d]]>>}]
     ELSE /\ pc' = "commit"
          /\ op' = NoOp
          /\ UNCHANGED <<buffer, hist>>
  /\ l' = 0
  /\ UNCHANGED <<arrayVars, diskVars, parityVars, content, optVars, driverVars,
                 i, j, handle, countVars, error_on_this_block,
                 silent_error_on_this_block, io_error_on_this_block,
                 fixed_error_on_this_block, parity_needs_to_be_updated,
                 info_i, rehash, rehandle, failed, failed_map, autoVars, faults>>

\* every level is written from the buffer of the first parity
parity_buffer_first(k) == DiskMax

\* line 964: the buffer written to the parity of level k
parity_buffer(k) == DiskMax + k

\* lines 963-994: parity_write of level l.  After an EIO the block on disk may
\* hold the old or the new content
ParityWrite ==
  /\ pc = "pwrite"
  /\ \E out \in {"ok"} \cup Faulty({"write_eio", "write_eio_torn", "write_err"}) :
       LET eio == out \in {"write_eio", "write_eio_torn"}
           bails == out = "write_err" \/ (eio /\ ~Tolerated)
       IN
       /\ Spend(out)
       /\ parity' = IF out \in {"ok", "write_eio_torn"}
                    THEN [parity EXCEPT ![l][i] = buffer[parity_buffer(l)]]
                    ELSE parity
       /\ pdirty' = [pdirty EXCEPT ![l] = @ \cup {i}]
       /\ io_error' = IF eio THEN io_error + 1 ELSE io_error
       /\ error' = IF out = "write_err" THEN error + 1 ELSE error
       /\ io_error_on_this_block' = (io_error_on_this_block \/ (eio /\ Tolerated))
       /\ pc' = IF bails THEN "sync_bail"
                ELSE IF l + 1 = level THEN "commit" ELSE "pwrite"
       /\ hist' = [hist EXCEPT
                     !.pw = @ \cup {i},
                     !.pw_since = @ \cup {i},
                     !.pwok = IF out = "ok" /\ l + 1 = level
                                   /\ ~io_error_on_this_block
                              THEN @ \cup {i} ELSE @,
                     !.io = IF eio /\ Tolerated THEN @ \cup {i} ELSE @,
                     !.eio = IF eio THEN @ \cup {i} ELSE @,
                     !.bailed = @ \/ bails]
  /\ l' = l + 1
  /\ op' = <<"pwrite", i>>
  /\ UNCHANGED <<arrayVars, diskVars, content, optVars, driverVars,
                 i, j, handle, silent_error, buffer, error_on_this_block,
                 silent_error_on_this_block, fixed_error_on_this_block,
                 parity_needs_to_be_updated, proceed, info_i, rehash, rehandle,
                 failed, failed_map, autoVars>>

\* a DELETED block is marked BLK like the others
block_state_processed_all_blk(st) ==
  IF st = EMPTY THEN EMPTY ELSE BLK

\* a REP block stays REP
block_state_processed_keep_rep(st) ==
  IF st = EMPTY \/ st = DELETED THEN EMPTY ELSE IF st = REP THEN REP ELSE BLK

\* lines 1005-1018: the state a block takes when its index is committed
block_state_processed(st) ==
  IF st = EMPTY \/ st = DELETED THEN EMPTY ELSE BLK

\* the info is refreshed at every index that is committed
info_is_refreshed_always == TRUE

\* the info is refreshed even when the parity was not updated
info_is_refreshed_unwritten ==
  /\ ~silent_error_on_this_block
  /\ ~io_error_on_this_block

\* lines 1027-1029: the parity was updated and the index is clean
info_is_refreshed ==
  /\ parity_needs_to_be_updated
  /\ ~silent_error_on_this_block
  /\ ~io_error_on_this_block

\* only a silent error marks the index bad
info_is_bad_silent == silent_error_on_this_block

\* line 1049: the index is marked bad
info_is_bad == silent_error_on_this_block \/ io_error_on_this_block

\* the new hashes are computed and dropped
rehash_is_stored_never(d) == FALSE

\* lines 1031-1037: the new hash of the block of disk d is stored
rehash_is_stored(d) == rehash /\ rehandle[d].block

\* the blocks are marked as processed after a parity write error too
states_are_committed_despite_write_error == proceed

\* lines 951-953 and 998: the blocks of the index are marked as processed
states_are_committed == proceed /\ ~io_error_on_this_block

\* lines 997-1058: the block states, the hashes and the info of index i
Commit ==
  /\ pc = "commit"
  /\ LET done == states_are_committed
         fresh == proceed /\ info_is_refreshed
     IN
     /\ bstate' = IF done
                  THEN [d \in Disks |->
                          IF d \in disk
                          THEN [bstate[d] EXCEPT ![i] = block_state_processed(@)]
                          ELSE bstate[d]]
                  ELSE bstate
     /\ hash' = [d \in Disks |->
                   [hash[d] EXCEPT ![i] =
                      IF done /\ d \in disk /\ bstate[d][i] = DELETED THEN ZeroHash
                      ELSE IF fresh /\ rehash_is_stored(d)
                           THEN rehandle[d].hash ELSE @]]
     /\ info' = IF info_is_bad THEN [info EXCEPT ![i] = info_set_bad(info_i)]
                ELSE IF fresh THEN [info EXCEPT ![i] = info_make(Now, FALSE, FALSE)]
                ELSE info
     /\ hist' = [hist EXCEPT !.mut = @ \cup MutOf,
                             !.committed = IF done THEN @ \cup {i} ELSE @,
                             !.marked = IF info_is_bad THEN @ \cup {i} ELSE @,
                             !.done = @ \cup {i}]
  /\ need_write' = TRUE
  /\ countpos' = countpos + 1
  /\ pc' = "progress"
  /\ op' = <<"commit", i>>
  /\ UNCHANGED <<diskVars, parityVars, content, optVars, run, blockmax,
                 skip_sync, unrecoverable_error, ret, hash_ret, sync_ret,
                 i, j, l, handle, countVars, buffer, blockVars, autosavedone,
                 autosavelimit, autosavemissing, countmax, faults>>

\* the autosave does not look at the indices left
autosave_is_due_to_the_end ==
  \/ /\ autosave # 0
     /\ autosavedone >= autosavelimit
  \/ (force_autosave_at # 0 /\ force_autosave_at = i)

\* lines 1068-1072
autosave_is_due ==
  \/ /\ autosave # 0
     /\ autosavedone >= autosavelimit
     /\ autosavemissing >= autosavelimit
  \/ (force_autosave_at # 0 /\ force_autosave_at = i)

\* the request of the progress callback to stop is ignored
progress_stops_never(out) == FALSE

\* lines 1060-1064: the pass leaves the loop when state_progress asks to stop
progress_stops(out) == out = "abort"

\* lines 1060-1081: the progress callback, then the autosave test
Progress ==
  /\ pc = "progress"
  /\ \E out \in {"ok"} \cup Faulty({"abort"}) :
       /\ Spend(out)
       /\ IF progress_stops(out)
          THEN /\ pc' = "sync_end"
               /\ hist' = [hist EXCEPT !.aborted = TRUE, !.adone = autosavedone]
               /\ UNCHANGED <<i, autosavedone>>
          ELSE IF autosave_is_due
          THEN /\ pc' = "asave"
               /\ autosavedone' = 0
               /\ hist' = [hist EXCEPT !.asave = @ \cup {i},
                                       !.adone = autosavedone,
                                       !.aborted = @ \/ out = "abort"]
               /\ UNCHANGED i
          ELSE /\ pc' = "sync_loop"
               /\ i' = i + 1
               /\ hist' = [hist EXCEPT !.adone = autosavedone,
                                       !.aborted = @ \/ out = "abort"]
               /\ UNCHANGED autosavedone
  /\ l' = 0
  /\ op' = <<"progress", i>>
  /\ UNCHANGED <<arrayVars, diskVars, parityVars, content, optVars, driverVars,
                 j, handle, countVars, buffer, blockVars, autosavelimit,
                 autosavemissing, countmax, countpos>>

\* the autosave syncs the first level only
autosave_sync_done_first(k) == TRUE

\* line 1085: the autosave has synced every level once level k is synced
autosave_sync_done(k) == k + 1 = level

\* the end of the pass syncs the first level only
end_sync_done_first(k) == TRUE

\* line 1116: the end of the pass has synced every level once level k is
end_sync_done(k) == k + 1 = level

\* a parity_sync of the autosave that fails is ignored
autosave_sync_is_fatal_never(out) == FALSE

\* lines 1086-1096: a parity_sync of the autosave that fails bails the pass
autosave_sync_is_fatal(out) == out # "ok"

\* lines 1085-1097: parity_sync of level l before the content is written
AutosaveSync ==
  /\ pc = "asave"
  /\ \E out \in {"ok"} \cup Faulty({"sync_err"}) :
       /\ Spend(out)
       /\ pdirty' = IF out = "ok" THEN [pdirty EXCEPT ![l] = {}] ELSE pdirty
       /\ error' = IF out = "ok" THEN error ELSE error + 1
       /\ pc' = IF autosave_sync_is_fatal(out) THEN "sync_bail"
                ELSE IF autosave_sync_done(l) THEN "awrite" ELSE "asave"
       /\ hist' = [hist EXCEPT !.synced = IF out = "ok" THEN @ \cup {l} ELSE @,
                               !.bailed = @ \/ autosave_sync_is_fatal(out),
                               !.afail = IF out # "ok" THEN @ \cup {i} ELSE @]
  /\ l' = l + 1
  /\ op' = <<"parity_sync", l>>
  /\ UNCHANGED <<arrayVars, diskVars, parity, content, optVars, driverVars,
                 i, j, handle, silent_error, io_error, buffer, blockVars,
                 autoVars>>

\* lines 1099-1106: state_write of the autosave, then the next index
AutosaveWrite ==
  /\ pc = "awrite"
  /\ state_write(bstate, hash, info)
  /\ hist' = Written(hist)
  /\ op' = <<"state_write", i>>
  /\ i' = i + 1
  /\ pc' = "sync_loop"
  /\ UNCHANGED <<arrayVars, diskVars, parityVars, optVars, run, blockmax,
                 skip_sync, unrecoverable_error, ret, hash_ret, sync_ret,
                 j, l, handle, countVars, buffer, blockVars, autoVars, faults>>

\* lines 1109-1128: the end label, parity_sync of level l before returning
EndSync ==
  /\ pc = "sync_end"
  /\ \E out \in {"ok"} \cup Faulty({"sync_err"}) :
       /\ Spend(out)
       /\ pdirty' = IF out = "ok" THEN [pdirty EXCEPT ![l] = {}] ELSE pdirty
       /\ error' = IF out = "ok" THEN error ELSE error + 1
       /\ pc' = IF out # "ok" \/ end_sync_done(l) THEN "sync_bail"
                ELSE "sync_end"
       /\ hist' = [hist EXCEPT !.synced = IF out = "ok" THEN @ \cup {l} ELSE @,
                               !.bailed = @ \/ out # "ok",
                               !.esync = @ \cup {l}]
  /\ l' = l + 1
  /\ op' = <<"parity_sync", l>>
  /\ UNCHANGED <<arrayVars, diskVars, parity, content, optVars, driverVars,
                 i, j, handle, silent_error, io_error, buffer, blockVars,
                 autoVars>>

\* the value is not inverted when an error is expected
sync_result_plain(n) == IF n # 0 THEN -1 ELSE 0

\* lines 1183-1190: the value state_sync_process returns
sync_result(n) ==
  IF expect_recoverable THEN (IF n = 0 THEN -1 ELSE 0)
  ELSE (IF n # 0 THEN -1 ELSE 0)

\* lines 1161-1190: the bail label, closing the files, and the return
SyncBail ==
  /\ pc = "sync_bail"
  /\ \E out \in {"ok"} \cup Faulty(IF \E d \in Disks : handle[d] # 0
                                   THEN {"close_err"} ELSE {}) :
       /\ Spend(out)
       /\ error' = IF out = "ok" THEN error ELSE error + 1
       /\ sync_ret' = sync_result(error' + silent_error + io_error)
  /\ handle' = [d \in Disks |-> 0]
  /\ pc' = "sync_ret"
  /\ op' = <<"return", 0>>
  /\ UNCHANGED <<arrayVars, diskVars, parityVars, content, optVars, run,
                 blockmax, skip_sync, need_write, unrecoverable_error, ret,
                 hash_ret, i, j, l, silent_error, io_error, buffer, blockVars,
                 autoVars, hist>>

\* state_sync lines 1318-1324
AfterSync ==
  /\ pc = "sync_ret"
  /\ unrecoverable_error' = IF sync_ret = -1 THEN unrecoverable_error + 1
                            ELSE unrecoverable_error
  /\ pc' = "close"
  /\ op' = NoOp
  /\ UNCHANGED <<arrayVars, diskVars, parityVars, content, optVars, run,
                 blockmax, skip_sync, need_write, ret, hash_ret, sync_ret,
                 i, j, l, handle, countVars, buffer, blockVars, autoVars,
                 faults, hist>>

\* state_sync lines 1330-1344: parity_close of every level, and the return
Close ==
  /\ pc = "close"
  /\ \E out \in {"ok"} \cup Faulty({"close_err"}) :
       /\ Spend(out)
       /\ unrecoverable_error' = IF out = "ok" THEN unrecoverable_error
                                 ELSE unrecoverable_error + 1
       /\ ret' = IF unrecoverable_error' # 0 THEN -1 ELSE 0
       /\ hist' = [hist EXCEPT !.close_failed = out # "ok"]
  /\ pc' = "done"
  /\ op' = NoOp
  /\ UNCHANGED <<arrayVars, diskVars, parityVars, content, optVars, run,
                 blockmax, skip_sync, need_write, hash_ret, sync_ret,
                 i, j, l, handle, countVars, buffer, blockVars, autoVars>>

\* ------------------------------------------------- between two runs of sync
\* the run found nothing wrong and went to the end of the range
CleanRun ==
  /\ pc = "done"
  /\ faults = 0
  /\ unrecoverable_error = 0
  /\ ~skip_sync

\* a sound BLK block rots on its disk after the first run
Corrupt ==
  /\ CleanRun
  /\ run = 1
  /\ hist.corrupt = {}
  /\ \E c \in Cells :
       /\ c[1] \in disk
       /\ bstate[c[1]][c[2]] = BLK
       /\ ContentOf(hash[c[1]][c[2]]) = data[c[1]][c[2]]
       /\ data' = [data EXCEPT ![c[1]][c[2]] = Other(@)]
       /\ hist' = [hist EXCEPT !.corrupt = {c}]
  /\ op' = NoOp
  /\ UNCHANGED <<arrayVars, disk, parityVars, content, optVars, pc, driverVars,
                 i, j, l, handle, countVars, buffer, blockVars, autoVars, faults>>

\* the command ends writing the content file, and sync is run again
Rerun ==
  /\ CleanRun
  /\ run = 1
  /\ run' = 2
  /\ content' = IF need_write
                THEN [bstate |-> bstate, hash |-> hash, info |-> info]
                ELSE content
  /\ need_write' = FALSE
  /\ pc' = "start"
  /\ op' = NoOp
  /\ hist' = [NoHist EXCEPT !.corrupt = hist.corrupt,
                            !.prev_errors = error + silent_error + io_error,
                            !.info0 = info, !.parity0 = parity,
                            !.bstate0 = bstate, !.hash0 = hash,
                            !.data0 = data]
  /\ i' = 0 /\ j' = 0 /\ l' = 0
  /\ buffer' = ZeroBuffer
  /\ failed' = <<>> /\ failed_map' = <<>>
  /\ error_on_this_block' = FALSE
  /\ silent_error_on_this_block' = FALSE
  /\ io_error_on_this_block' = FALSE
  /\ fixed_error_on_this_block' = FALSE
  /\ parity_needs_to_be_updated' = FALSE
  /\ proceed' = FALSE
  /\ info_i' = info_make(0, FALSE, FALSE)
  /\ rehash' = FALSE
  /\ rehandle' = [d \in Disks |-> [block |-> FALSE, hash |-> ZeroHash]]
  /\ error' = 0 /\ silent_error' = 0 /\ io_error' = 0
  /\ autosavedone' = 0 /\ autosavelimit' = 0 /\ autosavemissing' = 0
  /\ countmax' = 0 /\ countpos' = 0
  /\ blockmax' = 0 /\ skip_sync' = FALSE /\ unrecoverable_error' = 0
  /\ ret' = 0 /\ hash_ret' = 0 /\ sync_ret' = 0
  /\ UNCHANGED <<arrayVars, diskVars, parityVars, optVars, handle, faults>>

Next ==
  \/ Start \/ HashBegin \/ HashBlock \/ HashDiskEnd \/ HashEnd \/ HashBail
  \/ AfterHash \/ SyncEnter \/ SyncBegin \/ SyncIndex \/ SyncLoopEnd
  \/ DiskStep \/ Recover \/ ParityRead \/ RaidRec \/ Gen \/ ParityWrite
  \/ Commit \/ Progress \/ AutosaveSync \/ AutosaveWrite \/ EndSync
  \/ SyncBail \/ AfterSync \/ Close \/ Corrupt \/ Rerun

Spec == Init /\ [][Next]_vars

\* ------------------------------------------------------------- properties
\* the blocks the disks hold at index x; a slot with no disk, and an EMPTY or
\* DELETED block, count as zeros
DataAt(x) ==
  [d \in Disks |->
     IF d \in disk /\ block_has_file(bstate[d][x]) THEN data[d][x] ELSE 0]

\* every level of the parity at index x is the code of the blocks v
ParityMatches(x, v) == \A k \in Levels : parity[k][x] = RaidPar(k, v)

\* state_sync_process has returned through the end label
PassReturned == pc = "sync_ret" /\ ~hist.bailed

\* C1, as stated: after a pass that did not bail, the parity of every
\* committed index is the raid_gen of the blocks the disks hold at it
C1_ParityOfDiskData ==
  PassReturned => \A x \in hist.committed : ParityMatches(x, DataAt(x))

\* C1, amended: after a pass that did not bail, the parity of every committed
\* index at which no silent error was seen is the raid_gen of the blocks the
\* disks hold at it
C1_ParityOfCleanData ==
  PassReturned =>
    \A x \in hist.committed \ hist.silent : ParityMatches(x, DataAt(x))

C1_Witness ==
  /\ PassReturned
  /\ \E x \in (hist.committed \cap hist.pwok) \ hist.silent :
       \E d \in disk : data[d][x] # 0 /\ bstate[d][x] = BLK

\* the persisted content has a BLK block at index x
PersistedBlk(x) == \E d \in disk : content.bstate[d][x] = BLK

\* the persisted content has no block with invalid parity at index x
PersistedSettled(x) ==
  \A d \in disk : ~block_has_invalid_parity(content.bstate[d][x])

\* the blocks the persisted hashes describe at index x
PersistedData(x) ==
  [d \in Disks |->
     IF d \in disk /\ content.bstate[d][x] = BLK
     THEN ContentOf(content.hash[d][x]) ELSE 0]

\* no level of the parity has a write at index x that is not synced
Durable(x) == \A k \in Levels : x \notin pdirty[k]

\* C2, as stated: no persisted BLK block sits at an index whose parity was
\* written after the last parity_sync
C2_BlkParityDurable ==
  \A x \in Idx : PersistedBlk(x) => Durable(x)

\* C2, amended: a persisted BLK block at an index where the persisted content
\* has no CHG, REP or DELETED block has its parity synced and equal to the
\* code of the persisted blocks
C2_SettledParityDurable ==
  \A x \in Idx :
    PersistedBlk(x) /\ PersistedSettled(x) =>
      Durable(x) /\ ParityMatches(x, PersistedData(x))

C2_Witness ==
  /\ hist.nwrite > 0
  /\ \E x \in hist.pw : PersistedBlk(x) /\ PersistedSettled(x)
                          /\ \E d \in disk : hist.bstate0[d][x] # BLK

\* C3, as stated: every state_write of a run comes after a parity_sync of
\* every level in that run
C3_WriteAfterSyncOfAll == ~hist.unsynced_write

\* C3, amended: no state_write is issued while a parity_write of some level
\* is not yet followed by a parity_sync of that level, and a state_write that
\* comes after a parity_write of the run comes after a parity_sync of every
\* level
C3_WriteAfterSyncOfWritten ==
  /\ ~hist.dirty_write
  /\ (op[1] = "state_write" /\ hist.pw # {} => hist.synced = Levels)

C3_Witness ==
  /\ op[1] = "state_write"
  /\ hist.pw # {}
  /\ run = 1

\* C4, as stated: at every return of the pass every level was synced after
\* its last parity_write
C4_SyncedAtEveryReturn ==
  pc = "sync_ret" => \A k \in Levels : pdirty[k] = {}

\* C4, amended: at every return of the pass through the end label (the end
\* of the range or an abort of the progress, no bail) every level was synced
\* after its last parity_write
C4_SyncedAtReturn ==
  PassReturned => \A k \in Levels : pdirty[k] = {}

C4_Witness == PassReturned /\ hist.pw # {} /\ level = LevMax

\* C5: while the parity of an index was written and no state_write followed,
\* the persisted content has a CHG, REP or DELETED block at that index
C5_OldStatePersisted ==
  \A x \in hist.pw_since :
    \E d \in disk : block_has_invalid_parity(content.bstate[d][x])

C5_Witness ==
  \E x \in hist.pw_since \cap hist.committed :
    \A d \in disk : ~block_has_invalid_parity(bstate[d][x])

\* C6: a data read at an index comes before every parity_write at it, and a
\* parity_write at an index comes before every change of a block state or of
\* the info at it
C6_ReadWriteCommitOrder ==
  /\ (op[1] = "read" => op[2] \notin hist.pw /\ op[2] \notin hist.mut)
  /\ (op[1] = "pwrite" => op[2] \notin hist.mut)

C6_Witness ==
  /\ op[1] = "commit"
  /\ op[2] \in hist.rd \cap hist.pw \cap hist.mut

\* the pass went to the end of the range
PassCompleted == PassReturned /\ ~hist.aborted

\* the indices of the range of the run, and the run over the whole array
Range == {x \in Idx : blockstart <= x /\ x < blockmax}
WholeRange == blockstart = 0 /\ blockcount = 0

\* the indices skipped for a file error, an input/output error or a silent
\* error that was not fixed
Skipped == hist.ferr \cup hist.io \cup (hist.silent \ hist.fixed)

\* C7: after a pass that went to the end of the range, a CHG or REP block of
\* the range is at a skipped index only, and the DELETED blocks of an index
\* whose parity was rewritten are EMPTY
C7_NothingLeftToSync ==
  PassCompleted =>
    /\ \A x \in Range : \A d \in disk :
         bstate[d][x] \in {CHG, REP} => x \in Skipped
    /\ \A x \in hist.pwok : \A d \in disk :
         hist.bstate0[d][x] = DELETED => bstate[d][x] = EMPTY

C7_Witness ==
  /\ PassCompleted
  /\ \E x \in hist.pwok : \E d \in disk, e \in disk :
       /\ hist.bstate0[d][x] = DELETED /\ bstate[d][x] = EMPTY
       /\ hist.bstate0[e][x] \in {CHG, REP} /\ bstate[e][x] = BLK

\* a bad flag that was set is cleared only where the parity was written and
\* no silent and no input/output error was seen
ClearedCleanly ==
  \A x \in Idx :
    hist.info0[x].bad /\ ~info[x].bad =>
      x \in hist.pwok /\ x \notin hist.silent \cup hist.io

\* C8, as stated: when the pass returns, the indices it marked bad are those
\* at which it saw a silent error or an EIO of a data read, of a parity read
\* or of a parity write
C8_BadIffErrorSeen ==
  pc = "sync_ret" =>
    /\ hist.marked = hist.silent \cup hist.eio
    /\ ClearedCleanly

\* C8, amended: the indices the pass marked bad are those it processed to the
\* end, without bailing, and at which it saw a silent error or an EIO that
\* the io_error_limit tolerates; they have the bad flag, and a bad flag is
\* cleared by a clean rewrite only
C8_BadIffErrorTolerated ==
  /\ hist.marked = (hist.silent \cup hist.io) \cap hist.done
  /\ \A x \in hist.marked : info[x].bad
  /\ ClearedCleanly

C8_Witness ==
  /\ pc = "sync_ret"
  /\ \E x \in hist.marked : ~hist.info0[x].bad
  /\ \E x \in Idx : hist.info0[x].bad \/ x \in hist.io

\* C9: the timestamp of an index changes only where the parity was written in
\* this run and no silent and no input/output error was seen
C9_TimestampOfRewritten ==
  \A x \in Idx :
    info[x].ts # hist.info0[x].ts =>
      x \in hist.pwok /\ x \notin hist.silent \cup hist.io

C9_Witness ==
  \E x \in Idx, y \in Idx :
    /\ info[x].ts # hist.info0[x].ts
    /\ y \in hist.done /\ info[y].ts = hist.info0[y].ts

\* a second run over the whole array has ended, after a first one with no
\* error and the rot of a BLK block as the only change
SecondSyncDone ==
  /\ WholeRange
  /\ run = 2
  /\ pc = "done"
  /\ hist.corrupt # {}
  /\ hist.prev_errors = 0

\* C10, as stated: the second sync sees a silent error at the index of the
\* block, marks it bad, counts one silent error and leaves the parity of the
\* index as it was
C10_RotDetected ==
  SecondSyncDone =>
    \A c \in hist.corrupt :
      /\ c[2] \in hist.silent
      /\ info[c[2]].bad
      /\ silent_error = 1
      /\ \A k \in Levels : parity[k][c[2]] = hist.parity0[k][c[2]]

\* C10, amended: the index of the block is not enabled in the second sync,
\* which does not read the block: it sees no silent error, leaves the info
\* and the parity of the index as they were and counts no silent error
C10_RotNotRead ==
  SecondSyncDone =>
    \A c \in hist.corrupt :
      /\ ~block_is_enabled(c[2])
      /\ c[2] \notin hist.rd \cup hist.silent
      /\ info[c[2]] = hist.info0[c[2]]
      /\ silent_error = 0
      /\ \A k \in Levels : parity[k][c[2]] = hist.parity0[k][c[2]]

C10_Witness ==
  /\ SecondSyncDone
  /\ sync_ret = 0 /\ ret = 0 /\ countmax = 0
  /\ \E c \in hist.corrupt : data[c[1]][c[2]] # ContentOf(hash[c[1]][c[2]])

\* a second run over the whole array, after a first one with no error and no
\* abort, and with no change of the disks in between
SecondSyncUnchanged ==
  /\ WholeRange
  /\ run = 2
  /\ hist.corrupt = {}
  /\ hist.prev_errors = 0

\* C11: in such a second run no index is enabled, no data block is read by
\* the hash pass or by the sync pass, no parity block is read or written, and
\* the block states, the hashes and the info entries stay as they were
C11_SecondSyncIdle ==
  SecondSyncUnchanged =>
    /\ \A x \in Idx : ~block_is_enabled(x)
    /\ hist.rd = {} /\ hist.hrd = {}
    /\ hist.pr = {} /\ hist.pw = {}
    /\ bstate = hist.bstate0 /\ hash = hist.hash0 /\ info = hist.info0
    /\ parity = hist.parity0

C11_Witness ==
  /\ SecondSyncUnchanged
  /\ pc = "done" /\ hist.sync_ran /\ countmax = 0 /\ ret = 0
  /\ \E x \in Idx : \E d \in disk :
       bstate[d][x] = BLK /\ info[x].ts = Now /\ data[d][x] # 0

\* the run has ended and no error was counted by the hash pass nor by the sync
\* pass, and the parity files were closed
NoErrorCounted ==
  /\ hist.herr = 0
  /\ hist.sync_ran => error + silent_error + io_error = 0
  /\ ~hist.close_failed

\* C12, as stated: state_sync returns 0 when no error was counted and -1
\* otherwise, and the opposite when expect_recoverable is set
C12_InvertedReturn ==
  pc = "done" => (ret = -1 <=> (NoErrorCounted <=> expect_recoverable))

\* C12, amended: the hash pass returns -1 when it counted an error; the sync
\* pass returns -1 when it counted an error, and the opposite when
\* expect_recoverable is set; state_sync returns -1 when a pass that was run
\* returned -1 or a parity file could not be closed, and 0 otherwise
C12_ReturnOfPasses ==
  /\ pc = "hash_ret" => (hash_ret = -1 <=> hist.herr # 0)
  /\ pc = "sync_ret" =>
       (sync_ret = -1 <=>
          ((error + silent_error + io_error = 0) <=> expect_recoverable))
  /\ pc = "done" =>
       /\ ret \in {0, -1}
       /\ ret = -1 <=> \/ hist.hash_ran /\ hash_ret = -1
                       \/ hist.sync_ran /\ sync_ret = -1
                       \/ hist.close_failed

C12_Witness ==
  /\ pc = "done"
  /\ expect_recoverable /\ NoErrorCounted
  /\ ~hist.sync_ran /\ ret = 0

\* the indices rewritten cleanly: committed with the parity of every level
\* written and no silent and no input/output error
CleanlyRewritten ==
  (hist.committed \cap hist.pwok) \ (hist.silent \cup hist.io)

\* C13: at a cleanly rewritten index that had the rehash flag, the flag is
\* cleared and every BLK block has the hash of its data under the new
\* algorithm
C13_RehashedAfterRewrite ==
  \A x \in CleanlyRewritten :
    hist.info0[x].rehash =>
      /\ ~info[x].rehash
      /\ \A d \in disk :
           bstate[d][x] = BLK /\ <<d, x>> \notin hist.corrupt =>
             hash[d][x] = memhash(0, data[d][x])

C13_Witness ==
  \E x \in CleanlyRewritten : \E d \in disk :
    /\ hist.info0[x].rehash /\ ~info[x].rehash
    /\ bstate[d][x] = BLK /\ hist.bstate0[d][x] = REP
    /\ hist.hash0[d][x] = memhash(1, data[d][x])
    /\ hash[d][x] = memhash(0, data[d][x])

\* raid_gen has just computed the parity of index i after a fix in memory
GenAfterFix ==
  /\ pc = "pwrite" /\ op = <<"raid_gen", i>>
  /\ fixed_error_on_this_block

\* C14, as stated: after a fix in memory raid_gen computes the parity from
\* the bytes that are on the disks
C14_GenFromDiskData ==
  GenAfterFix =>
    \A d \in disk :
      block_has_file(bstate[d][i]) => buffer[d] = data[d][i]

\* C14, amended: after a fix in memory raid_gen computes the parity from the
\* content the stored hash describes for the BLK blocks, from the content
\* just read for the CHG and REP blocks, and from zeros where there is no
\* file
C14_GenFromFixedData ==
  GenAfterFix =>
    \A d \in Disks :
      buffer[d] = IF d \in disk /\ bstate[d][i] = BLK
                  THEN ContentOf(hash[d][i])
                  ELSE IF d \in disk /\ block_has_file(bstate[d][i])
                  THEN data[d][i]
                  ELSE 0

C14_Witness ==
  /\ GenAfterFix
  /\ \E d \in disk, e \in disk :
       /\ bstate[d][i] = BLK
       /\ buffer[d] # data[d][i]
       /\ buffer[d] = ContentOf(hash[d][i])
       /\ bstate[e][i] = DELETED
       /\ ContentOf(hash[e][i]) # 0 /\ buffer[e] = 0

\* the indices processed to their end with a file error (a file that is
\* missing, not accessible or changed, or a REP block whose hash differs) and
\* no silent and no input/output error
FileErrorOnly ==
  (hist.ferr \cap hist.done) \ (hist.silent \cup hist.io \cup hist.eio)

\* the sync pass is running and has met no fatal error
InSyncPass ==
  /\ hist.sync_ran /\ ~hist.bailed
  /\ pc \notin {"sync_begin", "sync_ret", "close", "done"}

\* C15: a file error counts one error for each offending block; the index is
\* skipped, with no parity read or written, no block state changed and the
\* info entry left as it was, not marked bad; the pass goes on to the other
\* enabled indices, and returns -1 unless an error is expected
C15_FileErrorSkipsIndex ==
  /\ InSyncPass => error = hist.nferr
  /\ \A x \in FileErrorOnly :
       /\ x \notin hist.pr \cup hist.pw \cup hist.mut \cup hist.marked
       /\ x \notin hist.committed
       /\ info[x] = hist.info0[x]
       /\ \A k \in Levels : parity[k][x] = hist.parity0[k][x]
  /\ PassCompleted =>
       \A x \in Range : block_is_enabled(x) => x \in hist.done
  /\ pc = "sync_ret" /\ hist.ferr # {} /\ ~expect_recoverable => sync_ret = -1

C15_Witness ==
  /\ PassCompleted
  /\ sync_ret = -1 /\ error = 1
  /\ \E x \in FileErrorOnly : \E y \in hist.committed \cap hist.pwok :
       /\ x < y
       /\ block_is_enabled(x)

\* the progress callback has just returned at an index, with no request to
\* abort
AfterProgress == op[1] = "progress" /\ pc # "sync_end"

\* the autosave has begun at the index of the callback
AutosaveBegun == pc = "asave" /\ i = op[2] /\ autosavedone = 0

\* the autosave was skipped at the index of the callback
AutosaveSkipped ==
  pc = "sync_loop" /\ i = op[2] + 1 /\ autosavedone = hist.adone

\* the counters allow an autosave: the limit is reached and at least a full
\* step is left
LimitReached ==
  /\ autosave # 0
  /\ hist.adone >= autosavelimit
  /\ autosavemissing >= autosavelimit

\* the indices processed before the last one
BeforeLast == {x \in hist.done : \E y \in hist.done : y > x}

C17_HashEioSkipsSync ==
  hist.heio =>
    /\ pc \in {"hash_bail", "hash_ret", "sync_enter", "close", "done"}
    /\ pc # "hash_bail" => skip_sync
    /\ ~hist.sync_ran
    /\ hist.pr = {} /\ hist.pw = {} /\ parity = hist.parity0
    /\ \A d \in Disks : \A x \in Idx :
         bstate[d][x] = BLK => hist.bstate0[d][x] = BLK
    /\ pc = "done" => ret = -1

C17_Witness ==
  /\ hist.heio
  /\ pc = "done" /\ ret = -1 /\ skip_sync
  /\ \E x \in Range : block_is_enabled(x)

\* state_sync is past the computation of the range, which is empty because
\* blockstart is its end
EmptyRange == pc \notin {"start", "exit"} /\ blockstart = blockmax

\* C18: with blockstart at the end of the range the sync pass is not run,
\* nothing is read or written, the array stays as it was, and state_sync
\* returns 0 when the parity files are closed
C18_NothingToDo ==
  EmptyRange =>
    /\ ~hist.sync_ran /\ pc \in {"hash_begin", "hash_end", "hash_ret",
                                  "sync_enter", "close", "done"}
    /\ hist.rd = {} /\ hist.hrd = {} /\ hist.pr = {} /\ hist.pw = {}
    /\ hist.nwrite = 0
    /\ bstate = hist.bstate0 /\ hash = hist.hash0 /\ info = hist.info0
    /\ parity = hist.parity0
    /\ pc = "done" /\ ~hist.close_failed => ret = 0

C18_Witness ==
  /\ EmptyRange
  /\ pc = "done" /\ ret = 0 /\ ~hist.sync_ran
  /\ blockstart = BlockMax
  /\ \E x \in Idx : block_is_enabled(x)

\* the end of the range as the sum of the integers blockstart and blockcount
\* gives it
RangeEnd ==
  IF blockcount = 0 \/ blockstart + blockcount >= BlockMax
  THEN BlockMax ELSE blockstart + blockcount

\* C19: the range of the run ends at the allocated parity size when
\* blockcount is 0, and at the least of that size and blockstart + blockcount
\* otherwise; the passes process no index out of it
C19_RangeOfRun ==
  pc \notin {"start", "exit"} =>
    /\ blockmax = RangeEnd
    /\ \A x \in hist.done \cup {c[2] : c \in hist.hrd} :
         blockstart <= x /\ x < RangeEnd

\* the first run has ended and a block has rotted since
BetweenRuns == run = 1 /\ hist.corrupt # {}

\* C20: in every state of a run the content of the data files is the one they
\* had at the start of the run, also after a fix in memory
C20_DataNotWritten ==
  ~BetweenRuns => data = hist.data0

C20_Witness ==
  /\ ~BetweenRuns /\ pc = "done"
  /\ data = hist.data0
  /\ \E x \in hist.fixed \cap hist.pwok : \E d \in disk :
       /\ bstate[d][x] = BLK
       /\ data[d][x] # ContentOf(hash[d][x])

\* at the start of the run some disk has a file at the index and some disk
\* has a block with invalid parity at it
EnabledAtStart(x) ==
  /\ \E d \in disk : hist.bstate0[d][x] \in {BLK, CHG, REP}
  /\ \E d \in disk : hist.bstate0[d][x] \in {CHG, REP, DELETED}

\* the indices the sync pass touched: data read, parity read or written,
\* block state or info changed, or index processed to its end
Touched ==
  hist.rd \cup hist.pr \cup hist.pw \cup hist.mut \cup hist.done

\* C21: the sync pass processes the indices of the range that have a file and
\* a block with invalid parity, and only these; at any other index no data is
\* read, no parity is read or written, and the block states, the hashes, the
\* info entry and the parity stay as they were
C21_EnabledIndicesOnly ==
  /\ \A x \in Touched : x \in Range /\ EnabledAtStart(x)
  /\ PassCompleted =>
       \A x \in Range : EnabledAtStart(x) => x \in hist.done
  /\ \A x \in Idx :
       ~EnabledAtStart(x) \/ (pc \notin {"start", "exit"} /\ x \notin Range) =>
         /\ \A d \in Disks : /\ bstate[d][x] = hist.bstate0[d][x]
                              /\ hash[d][x] = hist.hash0[d][x]
         /\ info[x] = hist.info0[x]
         /\ \A k \in Levels : parity[k][x] = hist.parity0[k][x]

C21_Witness ==
  /\ PassCompleted
  /\ \E x \in Range : \E y \in Range :
       /\ ~EnabledAtStart(x)
       /\ \E d \in disk : hist.bstate0[d][x] = DELETED /\ bstate[d][x] = DELETED
       /\ EnabledAtStart(y) /\ y \in hist.committed \cap hist.pwok

\* the state a block has once its index is committed, from the state it had
\* at the start of the run
CommittedState(st) ==
  IF st \in {CHG, REP} THEN BLK
  ELSE IF st = DELETED THEN EMPTY
  ELSE st

\* C22: the block states of an index change in the sync pass only when the
\* index had no file error, no input/output error and no silent error left
\* unfixed; then every block of the index has its committed state at once.
\* Otherwise every block has the state it had, but for the CHG blocks the
\* hash pass made REP
C22_CommitAllOrNothing ==
  /\ hist.committed \cap Skipped = {}
  /\ \A x \in Idx : \A d \in Disks :
       IF x \in hist.committed /\ d \in disk
       THEN bstate[d][x] = CommittedState(hist.bstate0[d][x])
       ELSE \/ bstate[d][x] = hist.bstate0[d][x]
            \/ /\ <<d, x>> \in hist.hrd
               /\ hist.bstate0[d][x] = CHG /\ bstate[d][x] = REP

C22_Witness ==
  \E x \in hist.committed : \E d \in disk, e \in disk :
    /\ hist.bstate0[d][x] = DELETED /\ bstate[d][x] = EMPTY
    /\ hist.bstate0[e][x] = CHG /\ bstate[e][x] = BLK

\* the sub-loop over the disks of index i has ended with no error
SubLoopEndedClean ==
  /\ pc = "recover"
  /\ ~error_on_this_block
  /\ ~silent_error_on_this_block
  /\ ~io_error_on_this_block

\* the CHG block of disk d at index i had no hash, or another hash than the
\* one of the data just read
ChangedSinceHashed(d) ==
  /\ bstate[d][i] = CHG
  /\ \/ hist.hash0[d][i] = ZeroHash
     \/ hist.hash0[d][i] # memhash(IF rehash THEN 1 ELSE 0, data[d][i])

\* C23: at the end of the sub-loop of an index with no error the parity
\* needs to be updated exactly when the index was marked bad, or has a REP
\* or a DELETED block, or has a CHG block changed since it was hashed
C23_ParityNeedsUpdate ==
  SubLoopEndedClean =>
    (parity_needs_to_be_updated <=>
       \/ info_i.bad
       \/ \E d \in disk : bstate[d][i] \in {REP, DELETED}
       \/ \E d \in disk : ChangedSinceHashed(d))

C23_Witness ==
  /\ SubLoopEndedClean
  /\ parity_needs_to_be_updated
  /\ ~info_i.bad
  /\ \A d \in disk : bstate[d][i] \notin {REP, DELETED}
  /\ \E d \in disk : /\ ChangedSinceHashed(d)
                       /\ hist.hash0[d][i] # ZeroHash

\* the indices processed to their end with no error of any kind
ErrorFree ==
  hist.done \ (hist.ferr \cup hist.silent \cup hist.io \cup hist.eio)

\* the index was not marked bad, and each of its blocks with invalid parity
\* is a CHG block the sync pass meets with the hash of its data
NothingChanged(x) ==
  /\ ~hist.info0[x].bad
  /\ \A d \in disk :
       hist.bstate0[d][x] \in {CHG, REP, DELETED} =>
         /\ hist.bstate0[d][x] = CHG
         /\ <<d, x>> \notin hist.hrd
         /\ hist.hash0[d][x] # ZeroHash
         /\ hist.hash0[d][x] =
              memhash(IF hist.info0[x].rehash THEN 1 ELSE 0, hist.data0[d][x])

\* C24: at an index with no error where nothing changed, raid_gen is not
\* called and no parity is written; the CHG blocks become BLK with the hash
\* they had, and the info entry is left as it was
C24_UnchangedIndexPromoted ==
  \A x \in ErrorFree :
    NothingChanged(x) =>
      /\ x \notin hist.pw \cup hist.pr
      /\ \A g \in hist.gen : g[1] # x
      /\ \A k \in Levels : parity[k][x] = hist.parity0[k][x]
      /\ x \in hist.committed
      /\ \A d \in disk : /\ bstate[d][x] = CommittedState(hist.bstate0[d][x])
                          /\ hash[d][x] = hist.hash0[d][x]
      /\ info[x] = hist.info0[x]

C24_Witness ==
  \E x \in ErrorFree : \E d \in disk :
    /\ NothingChanged(x)
    /\ hist.bstate0[d][x] = CHG /\ bstate[d][x] = BLK
    /\ data[d][x] # 0

\* the disks whose block is in the map given to raid_rec
InFailedMap == {failed_map[k] : k \in 1 .. Len(failed_map)}

\* C25: when the recovery of index i is set up, a CHG block that had a zero
\* hash when the index was entered has a buffer of zeros and is not in the
\* map of the blocks to recover
C25_ZeroHashChgNotRecovered ==
  op = <<"recover", i>> =>
    \A d \in disk :
      bstate[d][i] = CHG /\ hist.hash0[d][i] = ZeroHash =>
        buffer[d] = 0 /\ d \notin InFailedMap

\* the disks of the failed blocks of index i
FailedDisks == {failed[k].index : k \in 1 .. Len(failed)}

Unfixed == hist.silent \ hist.fixed

\* index x was left as it was by the sync pass, but for the bad flag
MarkedBadOnly(x) ==
  /\ x \notin hist.pw
  /\ \A g \in hist.gen : g[1] # x
  /\ \A k \in Levels : parity[k][x] = hist.parity0[k][x]
  /\ x \notin hist.committed
  /\ \A d \in Disks :
       bstate[d][x] # hist.bstate0[d][x] => <<d, x>> \in hist.hrd
  /\ info[x] = [hist.info0[x] EXCEPT !.bad = TRUE]

GenAfterRecovery ==
  /\ op = <<"raid_gen", i>>
  /\ i \in hist.fixed \cap hist.pr

\* the disks whose block raid_rec reconstructed
Reconstructed == {failed_map[k] : k \in 1 .. Len(failed_map)}

\* C28: when raid_gen is called after a recovery, the buffer of every CHG or
\* REP block holds the content read from the disk in this pass, the one of a
\* reconstructed block being equal to its scratch copy, and the buffer of
\* every DELETED, EMPTY or absent slot is zero
C28_GenFromReadContent ==
  GenAfterRecovery =>
    \A d \in Disks :
      /\ d \in disk /\ bstate[d][i] \in {CHG, REP} =>
           /\ buffer[d] = data[d][i]
           /\ d \in Reconstructed => buffer[d] = buffer[CopySlot(d)]
      /\ d \notin disk \/ bstate[d][i] \in {DELETED, EMPTY} => buffer[d] = 0

C28_Witness ==
  /\ GenAfterRecovery
  /\ \E d \in disk \cap Reconstructed :
       /\ bstate[d][i] = CHG
       /\ buffer[d] = data[d][i] /\ buffer[d] # 0
       /\ hist.parity0[0][i] # RaidPar(0, [e \in Disks |-> buffer[e]])

\* C29, as stated: every index at which the sync pass tolerated an EIO is
\* marked bad and not committed when the pass returns; the indices are those
\* at which the parity was read for a recovery, in a pass that met no error
\* other than an EIO
C29_ToleratedIsMarkedBad ==
  pc = "sync_ret" /\ error = 0 =>
    \A x \in hist.io \cap hist.pr : info[x].bad /\ x \notin hist.committed

\* C29, amended: the EIOs of data reads, parity reads and parity writes share
\* the counter io_error; one met below io_error_limit is tolerated (the index
\* gets io_error_on_this_block, is not committed, and is marked bad when the
\* pass processes it to its end), one met at or above the limit bails the
\* pass; the pass goes on only while io_error is within the limit, so that
\* at most io_error_limit EIOs are tolerated, none when the limit is 0
C29_EioTolerance ==
  hist.sync_ran =>
    /\ hist.io # {} => 1 <= io_error /\ 1 <= io_error_limit
    /\ ~hist.bailed => io_error <= io_error_limit
    /\ io_error <= io_error_limit + 1
    /\ io_error_limit = 0 /\ hist.eio # {} => hist.bailed
    /\ \A x \in hist.eio \ hist.io :
         hist.bailed /\ io_error = io_error_limit + 1 /\ x \notin hist.done
    /\ \A x \in hist.io :
         /\ x \notin hist.committed
         /\ x \in hist.done => info[x].bad
         /\ x = i /\ x \notin hist.done /\ pc # "sync_ret" => io_error_on_this_block

C29_Witness ==
  /\ pc = "sync_ret"
  /\ io_error_limit = 1 /\ io_error = 2
  /\ \E x \in hist.io \cap hist.done, y \in hist.eio \ hist.io :
       /\ x < y
       /\ info[x].bad /\ ~hist.info0[x].bad
       /\ ~info[y].bad

\* the hash pass has begun and the sync pass has not
HashPassOnly == hist.hash_ran /\ ~hist.sync_ran

\* C30: the hash pass changes only the blocks it read, which were CHG, of a
\* present disk and in [blockstart, blockmax): each gets the digest of its
\* data, by the previous algorithm if and only if the info entry of its index
\* has rehash set, and the state REP, and the array is marked as to be
\* written (it is written right after the pass); every other block, every
\* info entry and every parity block is as it was before the pass
C30_HashPassFrame ==
  HashPassOnly =>
    /\ info = hist.info0
    /\ parity = hist.parity0
    /\ hist.hrd # {} =>
         need_write \/ (content.bstate = bstate /\ content.hash = hash)
    /\ \A d \in Disks, x \in Idx :
         IF <<d, x>> \in hist.hrd
         THEN /\ hist.bstate0[d][x] = CHG
              /\ d \in disk /\ x >= blockstart /\ x < blockmax
              /\ bstate[d][x] = REP
              /\ hash[d][x] = memhash(IF hist.info0[x].rehash THEN 1 ELSE 0,
                                      data[d][x])
         ELSE /\ bstate[d][x] = hist.bstate0[d][x]
              /\ hash[d][x] = hist.hash0[d][x]

C30_Witness ==
  /\ HashPassOnly
  /\ pc = "hash_ret"
  /\ need_write
  /\ \E c \in hist.hrd :
       /\ info[c[2]].rehash
       /\ hash[c[1]][c[2]] = memhash(1, data[c[1]][c[2]])
       /\ hash[c[1]][c[2]] # hist.hash0[c[1]][c[2]]
       /\ hist.bstate0[c[1]][c[2]] = CHG /\ bstate[c[1]][c[2]] = REP

\* the hash pass has just met a file that is missing, not accessible or
\* changed, at the block of disk j at index op[2]
HashFileError == op[1] \in {"hash_stat", "hash_open_enoent", "hash_open_eacces"}

\* C31: in the hash pass a file that is missing, not accessible or changed
\* counts one error, leaves the state and the hash of its CHG block as they
\* were and does not set skip_sync, and the pass goes on with the next block;
\* the sync pass runs afterwards unless the hash pass bailed or was
\* interrupted for another reason, or the range is empty
C31_HashFileErrorGoesOn ==
  /\ HashFileError =>
       /\ pc = "hash_loop" /\ i = op[2] + 1
       /\ bstate[j][op[2]] = CHG /\ hist.bstate0[j][op[2]] = CHG
       /\ hash[j][op[2]] = hist.hash0[j][op[2]]
       /\ <<j, op[2]>> \notin hist.hrd
       /\ skip_sync = hist.habort
  /\ pc = "hash_loop" => error = hist.hferr
  /\ pc = "close" /\ hist.hferr > 0 /\ ~hist.sync_ran =>
       hist.bailed \/ hist.habort \/ ~range_has_blocks

C31_Witness ==
  /\ pc = "sync_ret"
  /\ hist.hferr = 1 /\ hist.herr = 1
  /\ hist.sync_ran /\ hist.rd # {}
  /\ unrecoverable_error >= 1

AfterHashPass == pc = "sync_enter" /\ hist.hash_ran

\* C33, as stated: when the hash pass set skip_sync the driver issues no
\* state_write after it
C33_NoWriteWhenSkipped ==
  AfterHashPass /\ skip_sync => op # <<"state_write", 0>>

\* C33, amended: after the hash pass the driver issues a state_write exactly
\* when the pass hashed a block, whether skip_sync is set or not, and the
\* content file then holds the array; when skip_sync is set the driver goes
\* on to close the parity without running the sync pass
C33_WriteWhenDirty ==
  /\ AfterHashPass =>
       /\ op = <<"state_write", 0>> <=> hist.hrd # {}
       /\ hist.nwrite = (IF hist.hrd # {} THEN 1 ELSE 0)
       /\ ~need_write
       /\ content = [bstate |-> bstate, hash |-> hash, info |-> info]
  /\ hist.hash_ran /\ skip_sync /\ pc \in {"close", "done"} => ~hist.sync_ran

C33_Witness ==
  /\ AfterHashPass
  /\ skip_sync /\ hist.habort /\ ~hist.bailed
  /\ op = <<"state_write", 0>>
  /\ \E c \in hist.hrd : content.bstate[c[1]][c[2]] = REP

\* the state_write calls the sync pass has issued
WritesOfPass == hist.nwrite - (IF hist.hrd # {} THEN 1 ELSE 0)

\* C34: in the sync pass a state_write is issued by an autosave only, right
\* after a parity_sync of every level succeeded, one level after the other
\* with no other operation between them, so with no parity write left
\* unsynced; an autosave whose parity_sync fails bails the pass and issues
\* no state_write
C34_AutosaveWriteAfterSync ==
  hist.sync_ran =>
    /\ pc = "asave" =>
         /\ l < level
         /\ \A k \in 0 .. l - 1 : pdirty[k] = {}
         /\ op = (IF l = 0 THEN <<"progress", i>> ELSE <<"parity_sync", l - 1>>)
    /\ pc = "awrite" =>
         /\ l = level /\ op = <<"parity_sync", level - 1>>
         /\ \A k \in Levels : pdirty[k] = {}
    /\ op[1] = "state_write" =>
         /\ pc = "sync_loop" /\ l = level
         /\ op[2] \in hist.asave \ hist.afail
         /\ \A k \in Levels : pdirty[k] = {}
    /\ WritesOfPass = Cardinality(hist.asave \ hist.afail)
                        - (IF pc \in {"asave", "awrite"} THEN 1 ELSE 0)
    /\ hist.afail # {} =>
         /\ hist.bailed
         /\ pc \in {"sync_bail", "sync_ret", "close", "done"}

C34_Witness ==
  /\ hist.sync_ran
  /\ op[1] = "state_write" /\ op[2] \in hist.pw
  /\ level = LevMax
  /\ WritesOfPass = 1

\* C35, as stated: a pass that reached the end of the range or was asked to
\* stop has called parity_sync on every level when it returns, and no parity
\* write is left unsynced
C35_SyncedBeforeReturn ==
  pc = "sync_ret" /\ hist.esync # {} =>
    /\ hist.esync = Levels
    /\ \A k \in Levels : pdirty[k] = {}

\* C35, amended: when the pass leaves the loop, at the end of the range or at
\* a request to stop, the index at which it was asked to stop is processed
\* to its end with no autosave started for it, no later index is touched,
\* and parity_sync is called on one level after the other; when every call
\* succeeds the pass returns with every level synced after its last parity
\* write, and when one fails the pass bails with the levels after it not
\* synced
C35_EndOfPass ==
  hist.sync_ran =>
    /\ pc = "sync_end" =>
         /\ hist.aborted \/ i >= blockmax
         /\ l < level /\ hist.esync = 0 .. l - 1
         /\ \A k \in 0 .. l - 1 : pdirty[k] = {}
         /\ l > 0 => op = <<"parity_sync", l - 1>>
    /\ hist.aborted =>
         /\ pc \in {"sync_end", "sync_bail", "sync_ret", "close", "done"}
         /\ i \in hist.done /\ i \notin hist.asave
         /\ \A x \in hist.rd \cup hist.pr \cup hist.pw \cup hist.mut
                     \cup hist.done \cup hist.asave : x <= i
    /\ pc = "sync_ret" /\ hist.esync # {} =>
         IF hist.bailed
         THEN /\ error >= 1
              /\ \E k \in Levels : hist.esync = 0 .. k
              /\ \A k \in Levels : k + 1 \in hist.esync => pdirty[k] = {}
         ELSE /\ hist.esync = Levels
              /\ \A k \in Levels : pdirty[k] = {}

C35_Witness ==
  /\ pc = "sync_ret" /\ ~hist.bailed
  /\ hist.aborted
  /\ level = LevMax /\ hist.esync = Levels
  /\ i \in hist.pw \cap hist.committed
  /\ \E x \in Idx : x > i /\ EnabledAtStart(x)

\* the algorithm a digest was taken with: 1 the previous one, 0 the current
AlgoOf(h) == (h - 1) \div GF

\* the hash of every block with an updated hash at index x is a digest under
\* the algorithm the rehash flag of the index tells
HashesFollowRehash(x) ==
  \A d \in disk :
    block_has_updated_hash(bstate[d][x]) =>
      /\ hash_is_real(hash[d][x])
      /\ AlgoOf(hash[d][x]) = (IF info[x].rehash THEN 1 ELSE 0)

FixedUnderRehash ==
  /\ pc = "sync_ret"
  /\ \E x \in hist.fixed \cap hist.committed \cap hist.pw :
       /\ info[x].rehash /\ info[x].bad
       /\ \E d \in disk : bstate[d][x] = BLK /\ AlgoOf(hash[d][x]) = 1

\* the disk slots recorded in failed[] and in failed_map[]
FailedSlots == {failed[k].index : k \in 1 .. Len(failed)}
MapSlots == {failed_map[k] : k \in 1 .. Len(failed_map)}

\* index i is being processed and its blocks are not yet committed
AtIndex == pc \in {"disk", "recover", "pread", "rec", "gen", "pwrite", "commit"}

\* the recovery of index i has filled failed_map[] (lines 826-907); outside
\* it the array keeps the entries of the last recovery
InRecovery == pc \in {"pread", "rec"}

\* C37: failed[] holds at most diskmax entries with no disk slot twice, each
\* of a disk before j whose block has an invalid parity or is a BLK found
\* with a silent error; failed_map[] holds no slot twice and no more than
\* the parity levels, and in a recovery its slots are slots of failed[]
C37_FailedWithinBounds ==
  /\ Len(failed) <= DiskMax
  /\ Cardinality(FailedSlots) = Len(failed)
  /\ Len(failed_map) <= level /\ Len(failed_map) <= DiskMax
  /\ Cardinality(MapSlots) = Len(failed_map)
  /\ InRecovery => MapSlots \subseteq FailedSlots
  /\ AtIndex =>
       /\ \A d \in FailedSlots :
            /\ d \in disk /\ d < j
            /\ \/ block_has_invalid_parity(hist.bstate0[d][i])
               \/ hist.bstate0[d][i] = BLK /\ silent_error_on_this_block

C37_Witness ==
  /\ pc = "pread"
  /\ Len(failed) = DiskMax /\ Len(failed_map) = level /\ level = LevMax
  /\ \E d \in FailedSlots, e \in FailedSlots :
       /\ bstate[d][i] = BLK
       /\ block_has_invalid_parity(bstate[e][i])

\* C38: for a nonzero blockcount the end of the range the run computes is
\* not below blockstart, and is the least of the allocated size and the sum
\* blockstart + blockcount taken with no wrap-around
C38_EndNotBelowStart ==
  pc \notin {"start", "exit"} /\ blockcount # 0 =>
    /\ blockstart <= blockmax
    /\ blockmax = (IF blockstart + blockcount < BlockMax
                   THEN blockstart + blockcount ELSE BlockMax)

\* the hash pass is at its end label
AtHashEnd == pc = "hash_end" \/ (pc = "hash_loop" /\ j = DiskMax)

\* the hash pass is at the block of disk j at index i, past the two tests
\* that skip a block with no file or with an updated hash
AtHashAssert ==
  /\ pc = "hash_loop" /\ j < DiskMax /\ j \in disk /\ i < blockmax
  /\ block_has_file(bstate[j][i])
  /\ ~block_has_updated_hash(bstate[j][i])

\* the sync pass is at the block of disk j at index i, which has a file and
\* no updated hash, while the parity does not need to be updated yet
AtSyncAssert ==
  /\ pc = "disk" /\ j < DiskMax /\ j \in disk
  /\ block_has_file(bstate[j][i])
  /\ ~block_has_updated_hash(bstate[j][i])
  /\ ~parity_needs_to_be_updated

\* C39: the assertions of the two passes hold: the block the hash pass is
\* about to hash is CHG, io_error is 0 at the end label of the hash pass, and
\* the block the sync pass tests for a change of hash is CHG
C39_AssertionsHold ==
  /\ AtHashAssert => bstate[j][i] = CHG
  /\ AtHashEnd => io_error = 0
  /\ AtSyncAssert => bstate[j][i] = CHG

C39_Witness ==
  /\ AtHashEnd
  /\ hist.hrd # {} /\ error >= 1 /\ io_error = 0
  /\ \E d \in disk, x \in Idx : bstate[d][x] = CHG

====
